---- MODULE Spec2Model ----
(***************************************************************************)
(* Appointment booking and financial reconciliation of the Beauty          *)
(* scheduling application: the REST handlers of the routes module and the  *)
(* DatabaseStorage methods they call, over the relational tables of the    *)
(* shared schema.  One action is one HTTP request handled to completion;   *)
(* a persistence call of a multi-step handler may fail (failAt), leaving   *)
(* the writes already made in place.                                       *)
(***************************************************************************)
EXTENDS Integers, Sequences, FiniteSets, TLC

VARIABLES companies, users, clients, procedures, appointments,
          appointmentProcedures, financialRecords, appointmentsSeq,
          financialRecordsSeq, pending, resp

vars == <<companies, users, clients, procedures, appointments,
          appointmentProcedures, financialRecords, appointmentsSeq,
          financialRecordsSeq, pending, resp>>

(* ------------------------------ bounds --------------------------------- *)

\* appointment rows ever inserted (values of the serial id)
MaxAppointments == 1
\* financial record rows ever inserted (values of the serial id)
MaxFinancialRecords == 2
\* the most appointment rows the dashboard is computed over
MaxDashboardRows == 3

(* ------------------------- decimal strings ----------------------------- *)

\* A numeric column holds a decimal string: units / 10^scale, printed with
\* exactly `scale` digits after the point ("19.90" is units 1990, scale 2).
Dec(u, s) == [units |-> u, scale |-> s]

\* JavaScript numbers are kept as a count of thousandths.
Pow10(n) == IF n = 0 THEN 1 ELSE IF n = 1 THEN 10 ELSE IF n = 2 THEN 100 ELSE 1000

\* parseFloat(string)
parseFloat(d) == d.units * Pow10(3 - d.scale)

\* Number.prototype.toFixed(2): the nearest hundredth, printed with two
\* digits.  A number ending in 5 thousandths is not a binary fraction, so the
\* double nearest to it lies above or below the tie and either neighbour is
\* the result (0.005 gives "0.01", 1.005 gives "1.00").
toFixed2(n) ==
    IF n % 10 = 5
    THEN {Dec(n \div 10, 2), Dec(n \div 10 + 1, 2)}
    ELSE {Dec((n + 5) \div 10, 2)}

\* A JavaScript number bound to a numeric column arrives as its shortest
\* decimal text (65.4, 30), and the column keeps the scale it was given.
numberToNumeric(n) ==
    IF n % 1000 = 0 THEN Dec(n \div 1000, 0)
    ELSE IF n % 100 = 0 THEN Dec(n \div 100, 1)
    ELSE IF n % 10 = 0 THEN Dec(n \div 10, 2)
    ELSE Dec(n, 3)

(* ---------------------------- input sets ------------------------------- *)

\* req.user of a request without a session
Anonymous == 0
\* a nullable column left empty
Null == 0
Statuses == {"scheduled", "confirmed", "completed", "cancelled"}
\* a request body without a status
NoStatus == ""
\* the persistence call of a handler that throws (0: none)
FailPoints == 0..5
AppointmentIds == 1..MaxAppointments
ClientIds == {1, 2}
ProcedureIds == {1, 2}

\* req.body.procedureIds as a JSON value: whether it is truthy, whether it
\* is an array, and the items a for-of loop over it would visit
Array(items) == [truthy |-> TRUE, isArray |-> TRUE, items |-> items]
\* the body has no procedureIds
Missing == [truthy |-> FALSE, isArray |-> FALSE, items |-> <<>>]
\* procedureIds is the string "12"
NotAList == [truthy |-> TRUE, isArray |-> FALSE, items |-> <<1, 2>>]

\* the requests of the booking workflow (specification Spec)
WorkflowCallers == {1}
FinancialCallers == {1, 3}
WorkflowClientIds == {1}
WorkflowCollaboratorIds == {2}
WorkflowStatuses == {NoStatus, "confirmed", "completed"}
WorkflowDates == {1}
WorkflowNow == {2}
ProcedureIdLists == {Array(<<2>>), Array(<<1, 2>>), Array(<<1, 1>>)}
\* request bodies of POST /api/financial-records (without appointmentId)
FinancialRecordBodies ==
    {[type |-> "income", category |-> "appointment", value |-> Dec(500, 2), date |-> 1]}

\* the requests of specification SpecCreateUpdate
CreateUpdateStatuses == Statuses \cup {NoStatus}
CreateUpdateDates == {1, 2}

\* the requests of specification SpecFail: every persistence call may throw
FailCallers == {1}
FailStatuses == {NoStatus, "completed"}
FailLists == {Array(<<2>>), Array(<<1, 2>>)}

\* the requests of specification SpecAccess: callers of both tenants
AccessCallers == {Anonymous, 1, 3}
AccessLists == {Array(<<1>>), Array(<<2>>)}
AccessStatuses == {NoStatus}
AccessNames == {"Bia"}
AccessPrices == {Dec(2500, 2)}

\* the requests of specification SpecValidation: references to rows that do
\* not exist or belong to the other company, and bodies without a usable list
ValidationCallers == {1, 3}
ValidationClientIds == {1, 2}
ValidationCollaboratorIds == {2, 3}
NoLists == {Missing, NotAList, Array(<<>>)}
InvalidLists == {Array(<<1, 3>>), Array(<<1, 4>>)}
ValidationLists == NoLists \cup InvalidLists \cup {Array(<<1>>), Array(<<2>>)}

\* the requests of specification SpecRoles: no session, an admin and a
\* collaborator of the same company
RoleCallers == {Anonymous, 1, 2}

NoBody == <<>>

(* ------------------------------ tables --------------------------------- *)

Remove(table, id) == [x \in DOMAIN table \ {id} |-> table[x]]

RECURSIVE totalValue(_)
\* let totalValue = 0; for (...) totalValue += parseFloat(procedure.value)
totalValue(procedureIds) ==
    IF procedureIds = <<>> THEN 0
    ELSE parseFloat(procedures[Head(procedureIds)].value)
         + totalValue(Tail(procedureIds))

isAuthenticated(u) == u \in DOMAIN users

isAdmin(u) == u \in DOMAIN users /\ users[u].role = "admin"

\* the requests in flight: a handler is suspended at each await of a
\* persistence call, and the handlers of other requests run meanwhile
Slots == {1, 2}
Idle == [pc |-> "idle"]

InitCompanies ==
    <<[inviteCode |-> "AAAA0001"], [inviteCode |-> "BBBB0002"]>>

InitUsers ==
    <<[role |-> "admin", companyId |-> 1, email |-> "ada@co1"],
      [role |-> "collaborator", companyId |-> 1, email |-> "bea@co1"],
      [role |-> "admin", companyId |-> 2, email |-> "cy@co2"]>>

Init ==
    /\ companies = InitCompanies
    /\ pending = [slot \in Slots |-> Idle]
    /\ users = InitUsers
    /\ clients = (1 :> [name |-> "Ana", companyId |-> 1])
              @@ (2 :> [name |-> "Ana", companyId |-> 2])
    /\ procedures = (1 :> [value |-> Dec(1990, 2), companyId |-> 1])
                 @@ (2 :> [value |-> Dec(35501, 3), companyId |-> 1])
                 @@ (3 :> [value |-> Dec(3000, 2), companyId |-> 2])
    /\ appointments = <<>>
    /\ appointmentProcedures = <<>>
    /\ financialRecords = <<>>
    /\ appointmentsSeq = 1
    /\ financialRecordsSeq = 1
    /\ resp = [op |-> "none", caller |-> 0, id |-> 0, status |-> 0,
               body |-> NoBody, procedureIds |-> <<>>, now |-> 0]

(* ------------------------- DatabaseStorage ----------------------------- *)

\* foreign keys of the appointments table
fkAppointment(a) ==
    /\ a.clientId \in DOMAIN clients
    /\ a.collaboratorId \in DOMAIN users
    /\ a.procedureId \in DOMAIN procedures

\* the row createAppointment and updateAppointment build from the parsed body
appointmentRow(a) ==
    [clientId |-> a.clientId,
     collaboratorId |-> a.collaboratorId,
     procedureId |-> a.procedureId,
     date |-> a.date,
     status |-> IF a.status = NoStatus THEN "scheduled" ELSE a.status,
     companyId |-> a.companyId,
     value |-> numberToNumeric(parseFloat(a.value))]

createAppointment(table, id, a) == table @@ (id :> appointmentRow(a))

\* faulty variant: the procedure_id column is left as it was
updateAppointmentKeepsProcedureId(table, id, a) ==
    [table EXCEPT ![id] =
        [appointmentRow(a) EXCEPT !.procedureId = table[id].procedureId]]

\* faulty variant: the status column is left as it was when the body has none
updateAppointmentKeepsStatus(table, id, a) ==
    [table EXCEPT ![id] =
        IF a.status = NoStatus
        THEN [appointmentRow(a) EXCEPT !.status = table[id].status]
        ELSE appointmentRow(a)]

updateAppointment(table, id, a) == [table EXCEPT ![id] = appointmentRow(a)]

\* faulty variant: no row is inserted
addProcedureToAppointmentNothing(rows, appointmentId, procedureId) == rows

addProcedureToAppointment(rows, appointmentId, procedureId) ==
    Append(rows, [appointmentId |-> appointmentId, procedureId |-> procedureId])

\* faulty variant: the delete filters on the wrong column
removeAllProceduresFromAppointmentWrongColumn(rows, appointmentId) ==
    SelectSeq(rows, LAMBDA r : r.procedureId # appointmentId)

removeAllProceduresFromAppointment(rows, appointmentId) ==
    SelectSeq(rows, LAMBDA r : r.appointmentId # appointmentId)

RECURSIVE addProcedures(_, _, _)
\* for (const procedure of validProcedures) await addProcedureToAppointment(..)
addProcedures(rows, appointmentId, procedureIds) ==
    IF procedureIds = <<>> THEN rows
    ELSE addProcedures(
             addProcedureToAppointment(rows, appointmentId, Head(procedureIds)),
             appointmentId, Tail(procedureIds))

\* faulty variant: the row is deleted before its junction rows
deleteAppointmentRowFirst(rows, table, id, fail) ==
    [appointmentProcedures |->
         IF fail = 0 THEN removeAllProceduresFromAppointment(rows, id) ELSE rows,
     appointments |-> IF fail = 1 THEN table ELSE Remove(table, id)]

\* deleteAppointment: the junction rows first, then the row itself; fail = 1
\* when the first statement throws, 2 when the second does.
deleteAppointment(rows, table, id, fail) ==
    [appointmentProcedures |->
         IF fail = 1 THEN rows ELSE removeAllProceduresFromAppointment(rows, id),
     appointments |-> IF fail = 0 THEN Remove(table, id) ELSE table]

\* the procedures joined to the junction rows of an appointment
getAppointmentProcedures(appointmentId) ==
    LET mine == SelectSeq(appointmentProcedures,
                          LAMBDA r : /\ r.appointmentId = appointmentId
                                     /\ r.procedureId \in DOMAIN procedures)
    IN [i \in 1..Len(mine) |->
           [id |-> mine[i].procedureId,
            value |-> procedures[mine[i].procedureId].value,
            companyId |-> procedures[mine[i].procedureId].companyId]]

\* faulty variant: the record is stored without its appointment
createFinancialRecordUnlinked(table, id, record) ==
    table @@ (id :> [record EXCEPT !.appointmentId = Null])

createFinancialRecord(table, id, record) == table @@ (id :> record)

\* faulty variant: the date of the record is not updated
updateFinancialRecordByAppointmentValueOnly(table, appointmentId, value, date) ==
    [f \in DOMAIN table |->
        IF table[f].appointmentId = appointmentId
        THEN [table[f] EXCEPT !.value = value]
        ELSE table[f]]

\* faulty variant: the value of the record is not updated
updateFinancialRecordByAppointmentDateOnly(table, appointmentId, value, date) ==
    [f \in DOMAIN table |->
        IF table[f].appointmentId = appointmentId
        THEN [table[f] EXCEPT !.date = date]
        ELSE table[f]]

updateFinancialRecordByAppointment(table, appointmentId, value, date) ==
    [f \in DOMAIN table |->
        IF table[f].appointmentId = appointmentId
        THEN [table[f] EXCEPT !.value = value, !.date = date]
        ELSE table[f]]

deleteFinancialRecordByAppointment(table, appointmentId) ==
    [f \in {x \in DOMAIN table : table[x].appointmentId # appointmentId} |-> table[f]]

(* ------------------------------ routes --------------------------------- *)

Resp(op, u, id, status, body, procedureIds, now) ==
    [op |-> op, caller |-> u, id |-> id, status |-> status, body |-> body,
     procedureIds |-> procedureIds, now |-> now]

\* faulty variant: the tenant check is missing
accessNeverDenied(entity, u) == FALSE

\* faulty variant: the tenant check is inverted
accessDeniedToOwner(entity, u) == entity.companyId = users[u].companyId

\* existing.companyId !== req.user.companyId
accessDenied(entity, u) == entity.companyId # users[u].companyId

\* faulty variant: the company of the procedure is not compared
invalidProcedureMissingOnly(procedureId, companyId) ==
    procedureId \notin DOMAIN procedures

\* !procedure || procedure.companyId !== companyId
invalidProcedure(procedureId, companyId) ==
    \/ procedureId \notin DOMAIN procedures
    \/ procedures[procedureId].companyId # companyId

\* faulty variant: only the length of procedureIds is looked at
noProcedureIdsLengthOnly(procedureIds) == procedureIds.items = <<>>

\* !procedureIds || !Array.isArray(procedureIds) || procedureIds.length === 0
noProcedureIds(procedureIds) ==
    \/ ~procedureIds.truthy
    \/ ~procedureIds.isArray
    \/ procedureIds.items = <<>>

\* faulty variant: the previous status is not looked at
statusChangedToCompletedAlways(updated, existing) == updated.status = "completed"

\* updatedAppointment.status === 'completed' && existingAppointment.status !== 'completed'
statusChangedToCompleted(updated, existing) ==
    updated.status = "completed" /\ existing.status # "completed"

PostAppointments(u, clientId, collaboratorId, procedureIds, date, status, failAt) ==
    LET op == "POST /api/appointments"
        ids == procedureIds.items
        n == Len(ids)
        RejectList(code, list) ==
            /\ failAt = 0
            /\ resp' = Resp(op, u, 0, code, NoBody, list, 0)
            /\ UNCHANGED <<appointments, appointmentProcedures, financialRecords,
                           appointmentsSeq, financialRecordsSeq>>
        Reject(code) == RejectList(code, <<>>)
    IN
    /\ appointmentsSeq <= MaxAppointments
    /\ financialRecordsSeq <= MaxFinancialRecords
    /\ failAt <= n + 2
    /\ UNCHANGED <<companies, pending, users, clients, procedures>>
    /\ IF ~isAuthenticated(u) THEN Reject(401)
       ELSE IF noProcedureIds(procedureIds) THEN Reject(400)
       ELSE IF \E i \in 1..n : invalidProcedure(ids[i], users[u].companyId)
       THEN RejectList(400, ids)
       ELSE \E value \in toFixed2(totalValue(ids)) :
           LET companyId == users[u].companyId
               appointmentData ==
                   [clientId |-> clientId, collaboratorId |-> collaboratorId,
                    procedureId |-> ids[1], date |-> date,
                    status |-> status, companyId |-> companyId, value |-> value]
               id == appointmentsSeq
               created == createAppointment(appointments, id, appointmentData)
               appointment == created[id]
               links == IF failAt \in 2..(n + 1) THEN failAt - 2 ELSE n
           IN
           IF failAt = 1 \/ ~fkAppointment(appointmentData)
           THEN /\ failAt \in {0, 1}
                /\ resp' = Resp(op, u, 0, 500, NoBody, ids, 0)
                /\ UNCHANGED <<appointments, appointmentProcedures,
                               financialRecords, appointmentsSeq,
                               financialRecordsSeq>>
           ELSE /\ appointments' = created
                /\ appointmentsSeq' = id + 1
                /\ appointmentProcedures' =
                       addProcedures(appointmentProcedures, id,
                                     SubSeq(ids, 1, links))
                /\ IF failAt = 0
                   THEN /\ financialRecords' =
                               createFinancialRecord(financialRecords,
                                   financialRecordsSeq,
                                   [type |-> "income", category |-> "appointment",
                                    value |-> appointment.value,
                                    date |-> appointment.date,
                                    companyId |-> companyId,
                                    appointmentId |-> id])
                        /\ financialRecordsSeq' = financialRecordsSeq + 1
                        /\ resp' = Resp(op, u, id, 201, <<appointment>>,
                                        ids, 0)
                   ELSE /\ UNCHANGED <<financialRecords, financialRecordsSeq>>
                        /\ resp' = Resp(op, u, id, 500, NoBody, ids, 0)

PutAppointmentsId(u, id, clientId, collaboratorId, procedureIds, date, status, now, failAt) ==
    LET op == "PUT /api/appointments/:id"
        ids == procedureIds.items
        n == Len(ids)
        RejectList(code, list) ==
            /\ failAt = 0
            /\ resp' = Resp(op, u, id, code, NoBody, list, 0)
            /\ UNCHANGED <<appointments, appointmentProcedures, financialRecords>>
        Reject(code) == RejectList(code, <<>>)
    IN
    /\ failAt <= n + 3
    /\ UNCHANGED <<companies, pending, users, clients, procedures, appointmentsSeq, financialRecordsSeq>>
    /\ IF ~isAuthenticated(u) THEN Reject(401)
       ELSE IF id \notin DOMAIN appointments THEN Reject(404)
       ELSE IF accessDenied(appointments[id], u) THEN Reject(403)
       ELSE IF noProcedureIds(procedureIds) THEN Reject(400)
       ELSE IF \E i \in 1..n : invalidProcedure(ids[i], users[u].companyId)
       THEN RejectList(400, ids)
       ELSE \E value \in toFixed2(totalValue(ids)) :
           LET existingAppointment == appointments[id]
               appointmentData ==
                   [clientId |-> clientId, collaboratorId |-> collaboratorId,
                    procedureId |-> ids[1], date |-> date,
                    status |-> status, companyId |-> users[u].companyId,
                    value |-> value]
               updated == updateAppointment(appointments, id, appointmentData)
               updatedAppointment == updated[id]
               sync == statusChangedToCompleted(updatedAppointment, existingAppointment)
               links == IF failAt \in 3..(n + 2) THEN failAt - 3 ELSE n
               removed == removeAllProceduresFromAppointment(appointmentProcedures, id)
           IN
           IF failAt = 1 \/ ~fkAppointment(appointmentData)
           THEN /\ failAt \in {0, 1}
                /\ resp' = Resp(op, u, id, 400, NoBody, ids, now)
                /\ UNCHANGED <<appointments, appointmentProcedures, financialRecords>>
           ELSE /\ failAt = n + 3 => sync
                /\ appointments' = updated
                /\ appointmentProcedures' =
                       IF failAt = 2 THEN appointmentProcedures
                       ELSE addProcedures(removed, id, SubSeq(ids, 1, links))
                /\ financialRecords' =
                       IF failAt = 0 /\ sync
                       THEN updateFinancialRecordByAppointment(financialRecords, id,
                                updatedAppointment.value, now)
                       ELSE financialRecords
                /\ resp' = IF failAt = 0
                           THEN Resp(op, u, id, 200, <<updatedAppointment>>,
                                     ids, now)
                           ELSE Resp(op, u, id, 400, NoBody, ids, now)

DeleteAppointmentsId(u, id, failAt) ==
    LET op == "DELETE /api/appointments/:id"
        Reject(code) ==
            /\ failAt = 0
            /\ resp' = Resp(op, u, id, code, NoBody, <<>>, 0)
            /\ UNCHANGED <<appointments, appointmentProcedures, financialRecords>>
    IN
    /\ failAt <= 3
    /\ UNCHANGED <<companies, pending, users, clients, procedures, appointmentsSeq, financialRecordsSeq>>
    /\ IF ~isAuthenticated(u) THEN Reject(401)
       ELSE IF id \notin DOMAIN appointments THEN Reject(404)
       ELSE IF accessDenied(appointments[id], u) THEN Reject(403)
       ELSE LET deleted == deleteAppointment(appointmentProcedures, appointments, id,
                                             IF failAt <= 1 THEN 0 ELSE failAt - 1)
            IN
            /\ financialRecords' =
                   IF failAt = 1 THEN financialRecords
                   ELSE deleteFinancialRecordByAppointment(financialRecords, id)
            /\ appointmentProcedures' =
                   IF failAt = 1 THEN appointmentProcedures
                   ELSE deleted.appointmentProcedures
            /\ appointments' =
                   IF failAt = 1 THEN appointments ELSE deleted.appointments
            /\ resp' = Resp(op, u, id, IF failAt = 0 THEN 204 ELSE 500, NoBody, <<>>, 0)

GetAppointmentsIdProcedures(u, id) ==
    LET op == "GET /api/appointments/:id/procedures"
        Reply(code, body) == resp' = Resp(op, u, id, code, body, <<>>, 0)
    IN
    /\ UNCHANGED <<companies, pending, users, clients, procedures, appointments, appointmentProcedures,
                   financialRecords, appointmentsSeq, financialRecordsSeq>>
    /\ IF ~isAuthenticated(u) THEN Reply(401, NoBody)
       ELSE IF id \notin DOMAIN appointments THEN Reply(404, NoBody)
       ELSE IF accessDenied(appointments[id], u) THEN Reply(403, NoBody)
       ELSE Reply(200, getAppointmentProcedures(id))

PostFinancialRecords(u, body, appointmentId) ==
    LET op == "POST /api/financial-records"
        Reply(code, b) == resp' = Resp(op, u, appointmentId, code, b, <<>>, 0)
        record == [type |-> body.type, category |-> body.category,
                   value |-> body.value, date |-> body.date,
                   companyId |-> users[u].companyId,
                   appointmentId |-> appointmentId]
    IN
    /\ financialRecordsSeq <= MaxFinancialRecords
    /\ UNCHANGED <<companies, pending, users, clients, procedures, appointments, appointmentProcedures,
                   appointmentsSeq>>
    /\ IF ~isAdmin(u)
       THEN Reply(403, NoBody) /\ UNCHANGED <<financialRecords, financialRecordsSeq>>
       ELSE IF appointmentId # Null /\ appointmentId \notin DOMAIN appointments
       THEN Reply(500, NoBody) /\ UNCHANGED <<financialRecords, financialRecordsSeq>>
       ELSE /\ financialRecords' =
                   createFinancialRecord(financialRecords, financialRecordsSeq, record)
            /\ financialRecordsSeq' = financialRecordsSeq + 1
            /\ Reply(201, <<record>>)

GetClientsId(u, id) ==
    LET op == "GET /api/clients/:id"
        Reply(code, body) == resp' = Resp(op, u, id, code, body, <<>>, 0)
    IN
    /\ UNCHANGED <<companies, pending, users, clients, procedures, appointments, appointmentProcedures,
                   financialRecords, appointmentsSeq, financialRecordsSeq>>
    /\ IF ~isAuthenticated(u) THEN Reply(401, NoBody)
       ELSE IF id \notin DOMAIN clients THEN Reply(404, NoBody)
       ELSE IF accessDenied(clients[id], u) THEN Reply(403, NoBody)
       ELSE Reply(200, <<clients[id]>>)

PutClientsId(u, id, name) ==
    LET op == "PUT /api/clients/:id"
        Reply(code, body) == resp' = Resp(op, u, id, code, body, <<>>, 0)
    IN
    /\ UNCHANGED <<companies, pending, users, procedures, appointments, appointmentProcedures,
                   financialRecords, appointmentsSeq, financialRecordsSeq>>
    /\ IF ~isAuthenticated(u) THEN Reply(401, NoBody) /\ UNCHANGED clients
       ELSE IF id \notin DOMAIN clients THEN Reply(404, NoBody) /\ UNCHANGED clients
       ELSE IF accessDenied(clients[id], u) THEN Reply(403, NoBody) /\ UNCHANGED clients
       ELSE /\ clients' = [clients EXCEPT ![id] =
                              [name |-> name, companyId |-> users[u].companyId]]
            /\ Reply(200, <<clients'[id]>>)

DeleteClientsId(u, id) ==
    LET op == "DELETE /api/clients/:id"
        Reply(code) == resp' = Resp(op, u, id, code, NoBody, <<>>, 0)
    IN
    /\ UNCHANGED <<companies, pending, users, procedures, appointments, appointmentProcedures,
                   financialRecords, appointmentsSeq, financialRecordsSeq>>
    /\ IF ~isAdmin(u) THEN Reply(403) /\ UNCHANGED clients
       ELSE IF id \notin DOMAIN clients THEN Reply(404) /\ UNCHANGED clients
       ELSE IF accessDenied(clients[id], u) THEN Reply(403) /\ UNCHANGED clients
       ELSE IF \E a \in DOMAIN appointments : appointments[a].clientId = id
       THEN Reply(500) /\ UNCHANGED clients
       ELSE clients' = Remove(clients, id) /\ Reply(204)

PutProceduresId(u, id, value) ==
    LET op == "PUT /api/procedures/:id"
        Reply(code, body) == resp' = Resp(op, u, id, code, body, <<>>, 0)
    IN
    /\ UNCHANGED <<companies, pending, users, clients, appointments, appointmentProcedures,
                   financialRecords, appointmentsSeq, financialRecordsSeq>>
    /\ IF ~isAdmin(u) THEN Reply(403, NoBody) /\ UNCHANGED procedures
       ELSE IF id \notin DOMAIN procedures THEN Reply(404, NoBody) /\ UNCHANGED procedures
       ELSE IF accessDenied(procedures[id], u)
       THEN Reply(403, NoBody) /\ UNCHANGED procedures
       ELSE /\ procedures' = [procedures EXCEPT ![id] =
                                 [value |-> value, companyId |-> users[u].companyId]]
            /\ Reply(200, <<procedures'[id]>>)

DeleteProceduresId(u, id) ==
    LET op == "DELETE /api/procedures/:id"
        Reply(code) == resp' = Resp(op, u, id, code, NoBody, <<>>, 0)
    IN
    /\ UNCHANGED <<companies, pending, users, clients, appointments, appointmentProcedures,
                   financialRecords, appointmentsSeq, financialRecordsSeq>>
    /\ IF ~isAdmin(u) THEN Reply(403) /\ UNCHANGED procedures
       ELSE IF id \notin DOMAIN procedures THEN Reply(404) /\ UNCHANGED procedures
       ELSE IF accessDenied(procedures[id], u) THEN Reply(403) /\ UNCHANGED procedures
       ELSE IF \/ \E a \in DOMAIN appointments : appointments[a].procedureId = id
               \/ \E i \in 1..Len(appointmentProcedures) :
                      appointmentProcedures[i].procedureId = id
       THEN Reply(500) /\ UNCHANGED procedures
       ELSE procedures' = Remove(procedures, id) /\ Reply(204)

Next ==
    \/ \E u \in WorkflowCallers, clientId \in WorkflowClientIds,
          collaboratorId \in WorkflowCollaboratorIds,
          procedureIds \in ProcedureIdLists, date \in WorkflowDates,
          status \in WorkflowStatuses :
          PostAppointments(u, clientId, collaboratorId, procedureIds, date, status, 0)
    \/ \E u \in WorkflowCallers, id \in AppointmentIds,
          clientId \in WorkflowClientIds,
          collaboratorId \in WorkflowCollaboratorIds,
          procedureIds \in ProcedureIdLists, date \in WorkflowDates,
          status \in WorkflowStatuses, now \in WorkflowNow :
          PutAppointmentsId(u, id, clientId, collaboratorId, procedureIds, date,
                            status, now, 0)
    \/ \E u \in WorkflowCallers, id \in AppointmentIds :
          DeleteAppointmentsId(u, id, 0)
    \/ \E u \in FinancialCallers, body \in FinancialRecordBodies,
          appointmentId \in {Null} \cup AppointmentIds :
          PostFinancialRecords(u, body, appointmentId)

Spec == Init /\ [][Next]_vars

\* only creations and updates of appointments, none of which fails
NextCreateUpdate ==
    \/ \E u \in WorkflowCallers, clientId \in WorkflowClientIds,
          collaboratorId \in WorkflowCollaboratorIds,
          procedureIds \in ProcedureIdLists, date \in CreateUpdateDates,
          status \in CreateUpdateStatuses :
          PostAppointments(u, clientId, collaboratorId, procedureIds, date, status, 0)
    \/ \E u \in WorkflowCallers, id \in AppointmentIds,
          clientId \in WorkflowClientIds,
          collaboratorId \in WorkflowCollaboratorIds,
          procedureIds \in ProcedureIdLists, date \in CreateUpdateDates,
          status \in CreateUpdateStatuses, now \in WorkflowNow :
          PutAppointmentsId(u, id, clientId, collaboratorId, procedureIds, date,
                            status, now, 0)

SpecCreateUpdate == Init /\ [][NextCreateUpdate]_vars

\* the booking workflow with persistence calls that throw
NextFail ==
    \/ \E u \in FailCallers, clientId \in WorkflowClientIds,
          collaboratorId \in WorkflowCollaboratorIds,
          procedureIds \in FailLists, date \in WorkflowDates,
          status \in FailStatuses, failAt \in FailPoints :
          PostAppointments(u, clientId, collaboratorId, procedureIds, date, status,
                           failAt)
    \/ \E u \in FailCallers, id \in AppointmentIds, clientId \in WorkflowClientIds,
          collaboratorId \in WorkflowCollaboratorIds,
          procedureIds \in FailLists, date \in WorkflowDates,
          status \in FailStatuses, now \in WorkflowNow, failAt \in FailPoints :
          PutAppointmentsId(u, id, clientId, collaboratorId, procedureIds, date,
                            status, now, failAt)
    \/ \E u \in FailCallers, id \in AppointmentIds, failAt \in FailPoints :
          DeleteAppointmentsId(u, id, failAt)
    \/ \E u \in FailCallers, id \in AppointmentIds :
          GetAppointmentsIdProcedures(u, id)

SpecFail == Init /\ [][NextFail]_vars

\* the routes that address one entity by id, called from both tenants
NextAccess ==
    \/ \E u \in AccessCallers, clientId \in WorkflowClientIds,
          collaboratorId \in WorkflowCollaboratorIds,
          procedureIds \in AccessLists, date \in WorkflowDates,
          status \in AccessStatuses :
          PostAppointments(u, clientId, collaboratorId, procedureIds, date, status, 0)
    \/ \E u \in AccessCallers, id \in AppointmentIds, clientId \in WorkflowClientIds,
          collaboratorId \in WorkflowCollaboratorIds,
          procedureIds \in AccessLists, date \in WorkflowDates,
          status \in AccessStatuses, now \in WorkflowNow :
          PutAppointmentsId(u, id, clientId, collaboratorId, procedureIds, date,
                            status, now, 0)
    \/ \E u \in AccessCallers, id \in AppointmentIds : DeleteAppointmentsId(u, id, 0)
    \/ \E u \in AccessCallers, id \in AppointmentIds :
          GetAppointmentsIdProcedures(u, id)
    \/ \E u \in AccessCallers, id \in ClientIds : GetClientsId(u, id)
    \/ \E u \in AccessCallers, id \in ClientIds, name \in AccessNames :
          PutClientsId(u, id, name)
    \/ \E u \in AccessCallers, id \in ClientIds : DeleteClientsId(u, id)
    \/ \E u \in AccessCallers, id \in ProcedureIds, value \in AccessPrices :
          PutProceduresId(u, id, value)
    \/ \E u \in AccessCallers, id \in ProcedureIds : DeleteProceduresId(u, id)

SpecAccess == Init /\ [][NextAccess]_vars

\* creations, updates and deletions with invalid references and bodies
NextValidation ==
    \/ \E u \in ValidationCallers, clientId \in ValidationClientIds,
          collaboratorId \in ValidationCollaboratorIds,
          procedureIds \in ValidationLists, date \in WorkflowDates,
          status \in AccessStatuses :
          PostAppointments(u, clientId, collaboratorId, procedureIds, date, status, 0)
    \/ \E u \in ValidationCallers, id \in AppointmentIds,
          clientId \in ValidationClientIds,
          collaboratorId \in ValidationCollaboratorIds,
          procedureIds \in ValidationLists, date \in WorkflowDates,
          status \in AccessStatuses, now \in WorkflowNow :
          PutAppointmentsId(u, id, clientId, collaboratorId, procedureIds, date,
                            status, now, 0)
    \/ \E u \in ValidationCallers, id \in AppointmentIds :
          DeleteAppointmentsId(u, id, 0)

SpecValidation == Init /\ [][NextValidation]_vars

\* the client, procedure and financial-record routes, called by every role
NextRoles ==
    \/ \E u \in RoleCallers, id \in ClientIds : GetClientsId(u, id)
    \/ \E u \in RoleCallers, id \in ClientIds, name \in AccessNames :
          PutClientsId(u, id, name)
    \/ \E u \in RoleCallers, id \in ClientIds : DeleteClientsId(u, id)
    \/ \E u \in RoleCallers, id \in ProcedureIds, value \in AccessPrices :
          PutProceduresId(u, id, value)
    \/ \E u \in RoleCallers, id \in ProcedureIds : DeleteProceduresId(u, id)
    \/ \E u \in RoleCallers, body \in FinancialRecordBodies :
          PostFinancialRecords(u, body, Null)

SpecRoles == Init /\ [][NextRoles]_vars

(* ----------------------------- dashboard ------------------------------- *)

\* instants of one day: the dates of the model count half days
Day == 2
\* now.getDate() - 7, nextWeekEnd.getDate() + 7
WeekDays == 7

\* setHours(0, 0, 0, 0)
startOfDay(t) == t - (t % Day)
\* setHours(23, 59, 59, 999)
endOfDay(t) == startOfDay(t) + Day - 1

\* the switch on timeFilter; 'month' and 'year' are not among the inputs
startDate(timeFilter, now) ==
    IF timeFilter = "week" THEN startOfDay(now - WeekDays * Day) ELSE startOfDay(now)
endDate(timeFilter, now) == endOfDay(now)
nextWeekStart(now) == now
nextWeekEnd(now) == endOfDay(now + WeekDays * Day)

\* conditions of a where clause; Null and "" leave a column unconstrained
NoCondition ==
    [companyId |-> Null, ranged |-> FALSE, startDate |-> 0, endDate |-> 0,
     collaboratorId |-> Null, type |-> ""]
\* and(eq(companyId), gte(date, startDate), lte(date, endDate))
companyAndRange(companyId, start, end) ==
    [NoCondition EXCEPT !.companyId = companyId, !.ranged = TRUE,
                        !.startDate = start, !.endDate = end]
\* eq(appointments.collaboratorId, collaboratorId)
eqCollaborator(collaboratorId) ==
    [NoCondition EXCEPT !.collaboratorId = collaboratorId]
\* eq(financialRecords.type, type)
eqType(type) == [NoCondition EXCEPT !.type = type]

\* query.where(condition) of the query builder: the condition of the query
\* is assigned, so a second call replaces the condition of the first
where(query, condition) == condition

\* the rows a condition selects
appointmentMatches(row, c) ==
    /\ c.companyId # Null => row.companyId = c.companyId
    /\ c.ranged => (row.date >= c.startDate /\ row.date <= c.endDate)
    /\ c.collaboratorId # Null => row.collaboratorId = c.collaboratorId
financialRecordMatches(row, c) ==
    /\ c.companyId # Null => row.companyId = c.companyId
    /\ c.ranged => (row.date >= c.startDate /\ row.date <= c.endDate)
    /\ c.type # "" => row.type = c.type

\* the ids of the rows returned (the dashboard uses no order)
getAppointmentsByDateRange(companyId, start, end, collaboratorId) ==
    LET query == where(NoCondition, companyAndRange(companyId, start, end))
        final == IF collaboratorId # Null
                 THEN where(query, eqCollaborator(collaboratorId))
                 ELSE query
    IN {a \in DOMAIN appointments : appointmentMatches(appointments[a], final)}

getFinancialRecordsByDateRange(companyId, start, end, type) ==
    LET query == where(NoCondition, companyAndRange(companyId, start, end))
        final == IF type # "" THEN where(query, eqType(type)) ELSE query
    IN {f \in DOMAIN financialRecords :
           financialRecordMatches(financialRecords[f], final)}

getClientsByCompany(companyId) ==
    {c \in DOMAIN clients : clients[c].companyId = companyId}

RECURSIVE sumValues(_, _)
\* records.reduce((sum, record) => sum + Number(record.value), 0), thousandths
sumValues(table, ids) ==
    IF ids = {} THEN 0
    ELSE LET f == CHOOSE x \in ids : TRUE
         IN parseFloat(table[f].value) + sumValues(table, ids \ {f})

\* faulty variant: the quotient is truncated
MathFloor(num, den) == num \div den

\* Math.round(num / den) for num >= 0 and den > 0
MathRound(num, den) == (2 * num + den) \div (2 * den)

DashboardOp(timeFilter) ==
    IF timeFilter = "week" THEN "GET /api/dashboard/stats?timeFilter=week"
    ELSE "GET /api/dashboard/stats?timeFilter=day"

GetDashboardStats(u, timeFilter, now) ==
    LET op == DashboardOp(timeFilter)
        companyId == users[u].companyId
        admin == users[u].role = "admin"
        start == startDate(timeFilter, now)
        end == endDate(timeFilter, now)
        found == getAppointmentsByDateRange(companyId, start, end,
                                            IF ~admin THEN u ELSE Null)
        revenue == IF admin
                   THEN sumValues(financialRecords,
                            getFinancialRecordsByDateRange(companyId, start, end,
                                                           "income"))
                   ELSE 0
        completed == {a \in found : appointments[a].status = "completed"}
        length == Cardinality(found)
        occupationRate ==
            MathRound(Cardinality(completed) * 100, IF length = 0 THEN 1 ELSE length)
        upcomingAppointments ==
            getAppointmentsByDateRange(companyId, nextWeekStart(now),
                                       nextWeekEnd(now), IF ~admin THEN u ELSE Null)
    IN
    /\ UNCHANGED <<companies, pending, users, clients, procedures, appointments, appointmentProcedures,
                   financialRecords, appointmentsSeq, financialRecordsSeq>>
    /\ IF ~isAuthenticated(u)
       THEN resp' = Resp(op, u, 0, 401, NoBody, <<>>, now)
       ELSE resp' = Resp(op, u, 0, 200,
                         <<[appointments |-> length,
                            clients |-> Cardinality(getClientsByCompany(companyId)),
                            revenue |-> revenue,
                            occupation |-> occupationRate,
                            clientsServed |-> Cardinality(completed),
                            weeklyAppointments |-> Cardinality(upcomingAppointments)]>>,
                         <<>>, now)

\* the appointment rows the dashboard is computed over: of company 1 with
\* collaborator 1 or 2, and of company 2 with collaborator 3
DashboardTenants ==
    {[companyId |-> 1, collaboratorId |-> 1, clientId |-> 1, procedureId |-> 1,
      value |-> Dec(199, 1)],
     [companyId |-> 1, collaboratorId |-> 2, clientId |-> 1, procedureId |-> 1,
      value |-> Dec(199, 1)],
     [companyId |-> 2, collaboratorId |-> 3, clientId |-> 2, procedureId |-> 3,
      value |-> Dec(30, 0)]}
DashboardDates == {4, 21}
DashboardStatuses == {"scheduled", "completed"}
DashboardRows ==
    {[clientId |-> t.clientId, collaboratorId |-> t.collaboratorId,
      procedureId |-> t.procedureId, date |-> d, status |-> st,
      companyId |-> t.companyId, value |-> t.value] :
        t \in DashboardTenants, d \in DashboardDates, st \in DashboardStatuses}
DashboardCallers == {Anonymous, 1, 2, 3}
TimeFilters == {"day", "week"}
DashboardNow == {5, 20}

\* the financial records revenue is computed over
RevenueRows ==
    {[type |-> ty, category |-> "appointment", value |-> Dec(500, 2), date |-> d,
      companyId |-> c, appointmentId |-> Null] :
        ty \in {"income", "expense"}, d \in DashboardDates, c \in {1, 2}}

\* appointment rows as creations and updates leave them, no financial record
InitDashboard ==
    /\ companies = InitCompanies
    /\ pending = [slot \in Slots |-> Idle]
    /\ users = InitUsers
    /\ clients = (1 :> [name |-> "Ana", companyId |-> 1])
              @@ (2 :> [name |-> "Ana", companyId |-> 2])
    /\ procedures = (1 :> [value |-> Dec(1990, 2), companyId |-> 1])
                 @@ (2 :> [value |-> Dec(35501, 3), companyId |-> 1])
                 @@ (3 :> [value |-> Dec(3000, 2), companyId |-> 2])
    /\ \E n \in 0..MaxDashboardRows :
          /\ appointments \in [1..n -> DashboardRows]
          /\ appointmentsSeq = n + 1
    /\ appointmentProcedures = <<>>
    /\ financialRecords = <<>>
    /\ financialRecordsSeq = 1
    /\ resp = [op |-> "none", caller |-> 0, id |-> 0, status |-> 0,
               body |-> NoBody, procedureIds |-> <<>>, now |-> 0]

NextDashboard ==
    \E u \in DashboardCallers, timeFilter \in TimeFilters, now \in DashboardNow :
        GetDashboardStats(u, timeFilter, now)

SpecDashboard == InitDashboard /\ [][NextDashboard]_vars

\* financial records of both companies, no appointment
InitRevenue ==
    /\ companies = InitCompanies
    /\ pending = [slot \in Slots |-> Idle]
    /\ users = InitUsers
    /\ clients = (1 :> [name |-> "Ana", companyId |-> 1])
              @@ (2 :> [name |-> "Ana", companyId |-> 2])
    /\ procedures = (1 :> [value |-> Dec(1990, 2), companyId |-> 1])
                 @@ (2 :> [value |-> Dec(35501, 3), companyId |-> 1])
                 @@ (3 :> [value |-> Dec(3000, 2), companyId |-> 2])
    /\ appointments = <<>>
    /\ appointmentsSeq = 1
    /\ appointmentProcedures = <<>>
    /\ \E n \in 0..MaxFinancialRecords :
          /\ financialRecords \in [1..n -> RevenueRows]
          /\ financialRecordsSeq = n + 1
    /\ resp = [op |-> "none", caller |-> 0, id |-> 0, status |-> 0,
               body |-> NoBody, procedureIds |-> <<>>, now |-> 0]

SpecRevenue == InitRevenue /\ [][NextDashboard]_vars

(* --------------------------- registration ------------------------------ *)

\* the request bodies of the registration routes
RegisterEmails == {"ada@co1", "dee@new", "eve@new"}
\* the role and companyId a body claims for its user
RegisterClaims ==
    {[role |-> "collaborator", companyId |-> Null],
     [role |-> "admin", companyId |-> 2]}
RegisterUsers ==
    {[email |-> email, role |-> c.role, companyId |-> c.companyId] :
        email \in RegisterEmails, c \in RegisterClaims}
\* the invite codes a body may carry and generateInviteCode may draw
InviteCodes == {"AAAA0001", "CCCC0003"}

\* db.select().from(users).where(eq(users.email, email))
getUserByEmail(email) == {u \in DOMAIN users : users[u].email = email}

\* db.select().from(companies).where(eq(companies.inviteCode, code))
getCompanyByInviteCode(code) ==
    {c \in DOMAIN companies : companies[c].inviteCode = code}

\* invite_code is unique: the insert of a second row with the code throws
createCompanyThrows(company) == getCompanyByInviteCode(company.inviteCode) # {}

\* email is unique and company_id references companies: the insert throws
createUserThrows(user) ==
    \/ getUserByEmail(user.email) # {}
    \/ user.companyId \notin DOMAIN companies \cup {Null}

\* faulty variant: the role of the body is kept
adminUserDataAsSent(user) == user

\* insertUserSchema.parse({ ...req.body.user, role: 'admin' })
adminUserData(user) == [user EXCEPT !.role = "admin"]

\* insertUserSchema.parse({ ...userData, role: 'collaborator', companyId: company.id })
collaboratorUserData(user, company) ==
    [user EXCEPT !.role = "collaborator", !.companyId = company]

RegisterResp(op, id, status, body, request) ==
    [op |-> op, caller |-> Anonymous, id |-> id, status |-> status,
     body |-> body, procedureIds |-> <<>>, now |-> 0, request |-> request]

Tables ==
    <<clients, procedures, appointments, appointmentProcedures,
      financialRecords, appointmentsSeq, financialRecordsSeq>>

\* POST /api/register/admin up to the await of storage.createCompany
RegisterAdmin(slot, user) ==
    LET op == "POST /api/register/admin"
        userData == adminUserData(user)
    IN
    /\ pending[slot] = Idle
    /\ UNCHANGED <<companies, users, Tables>>
    /\ IF getUserByEmail(userData.email) # {}
       THEN /\ resp' = RegisterResp(op, 0, 400, NoBody, user)
            /\ UNCHANGED pending
       ELSE /\ pending' = [pending EXCEPT ![slot] =
                              [pc |-> "admin.createCompany", request |-> user,
                               userData |-> userData]]
            /\ UNCHANGED resp

\* storage.createCompany({ ...companyData, inviteCode }), up to the await of
\* storage.createUser; fails is a failure of the database call
RegisterAdminCreateCompany(slot, inviteCode, fails) ==
    LET op == "POST /api/register/admin"
        company == [inviteCode |-> inviteCode]
    IN
    /\ pending[slot].pc = "admin.createCompany"
    /\ UNCHANGED <<users, Tables>>
    /\ IF fails \/ createCompanyThrows(company)
       THEN /\ resp' = RegisterResp(op, 0, 500, NoBody, pending[slot].request)
            /\ pending' = [pending EXCEPT ![slot] = Idle]
            /\ UNCHANGED companies
       ELSE /\ companies' = Append(companies, company)
            /\ pending' = [pending EXCEPT ![slot] =
                              [pc |-> "admin.createUser",
                               request |-> pending[slot].request,
                               userData |-> pending[slot].userData,
                               company |-> Len(companies) + 1]]
            /\ UNCHANGED resp

\* storage.createUser({ ...userData, password, companyId: company.id }) and
\* the answer
RegisterAdminCreateUser(slot, fails) ==
    LET op == "POST /api/register/admin"
        user == [pending[slot].userData EXCEPT
                    !.companyId = pending[slot].company]
    IN
    /\ pending[slot].pc = "admin.createUser"
    /\ UNCHANGED <<companies, Tables>>
    /\ pending' = [pending EXCEPT ![slot] = Idle]
    /\ IF fails \/ createUserThrows(user)
       THEN /\ resp' = RegisterResp(op, 0, 500, NoBody, pending[slot].request)
            /\ UNCHANGED users
       ELSE /\ users' = Append(users, user)
            /\ resp' = RegisterResp(op, Len(users) + 1, 201, <<user>>,
                                    pending[slot].request)

\* POST /api/register/collaborator up to the await of storage.createUser
RegisterCollaborator(slot, inviteCode, user) ==
    LET op == "POST /api/register/collaborator"
        company == getCompanyByInviteCode(inviteCode)
        request == [user |-> user, inviteCode |-> inviteCode]
    IN
    /\ pending[slot] = Idle
    /\ UNCHANGED <<companies, users, Tables>>
    /\ IF company = {}
       THEN /\ resp' = RegisterResp(op, 0, 400, NoBody, request)
            /\ UNCHANGED pending
       ELSE LET validatedUserData ==
                    collaboratorUserData(user, CHOOSE c \in company : TRUE)
            IN
            IF getUserByEmail(validatedUserData.email) # {}
            THEN /\ resp' = RegisterResp(op, 0, 400, NoBody, request)
                 /\ UNCHANGED pending
            ELSE /\ pending' = [pending EXCEPT ![slot] =
                                   [pc |-> "collaborator.createUser",
                                    request |-> request,
                                    userData |-> validatedUserData]]
                 /\ UNCHANGED resp

\* storage.createUser({ ...validatedUserData, password }) and the answer
RegisterCollaboratorCreateUser(slot, fails) ==
    LET op == "POST /api/register/collaborator"
        user == pending[slot].userData
    IN
    /\ pending[slot].pc = "collaborator.createUser"
    /\ UNCHANGED <<companies, Tables>>
    /\ pending' = [pending EXCEPT ![slot] = Idle]
    /\ IF fails \/ createUserThrows(user)
       THEN /\ resp' = RegisterResp(op, 0, 500, NoBody, pending[slot].request)
            /\ UNCHANGED users
       ELSE /\ users' = Append(users, user)
            /\ resp' = RegisterResp(op, Len(users) + 1, 201, <<user>>,
                                    pending[slot].request)

NextRegister ==
    \/ \E slot \in Slots, user \in RegisterUsers : RegisterAdmin(slot, user)
    \/ \E slot \in Slots, inviteCode \in InviteCodes, fails \in BOOLEAN :
          RegisterAdminCreateCompany(slot, inviteCode, fails)
    \/ \E slot \in Slots, fails \in BOOLEAN : RegisterAdminCreateUser(slot, fails)
    \/ \E slot \in Slots, inviteCode \in InviteCodes, user \in RegisterUsers :
          RegisterCollaborator(slot, inviteCode, user)
    \/ \E slot \in Slots, fails \in BOOLEAN :
          RegisterCollaboratorCreateUser(slot, fails)

SpecRegister == Init /\ [][NextRegister]_vars

(* ------------------------ interleaved requests -------------------------- *)

\* the requests of specifications SpecUpdates and SpecConcurrent
ConcurrentLists == {Array(<<1>>), Array(<<2>>)}
ConcurrentStatuses == {NoStatus, "completed"}

Finish(slot) == pending' = [pending EXCEPT ![slot] = Idle]

\* PUT /api/appointments/:id up to the await of storage.updateAppointment
PutBegin(slot, u, id, clientId, collaboratorId, procedureIds, date, status, now) ==
    LET op == "PUT /api/appointments/:id"
        ids == procedureIds.items
        Reject(code, list) ==
            /\ resp' = Resp(op, u, id, code, NoBody, list, 0)
            /\ UNCHANGED pending
    IN
    /\ pending[slot] = Idle
    /\ UNCHANGED <<companies, users, Tables>>
    /\ IF ~isAuthenticated(u) THEN Reject(401, <<>>)
       ELSE IF id \notin DOMAIN appointments THEN Reject(404, <<>>)
       ELSE IF accessDenied(appointments[id], u) THEN Reject(403, <<>>)
       ELSE IF noProcedureIds(procedureIds) THEN Reject(400, <<>>)
       ELSE IF \E i \in 1..Len(ids) : invalidProcedure(ids[i], users[u].companyId)
       THEN Reject(400, ids)
       ELSE \E value \in toFixed2(totalValue(ids)) :
            /\ pending' = [pending EXCEPT ![slot] =
                  [pc |-> "put.updateAppointment", caller |-> u, id |-> id,
                   ids |-> ids, now |-> now,
                   existingAppointment |-> appointments[id],
                   appointmentData |->
                       [clientId |-> clientId, collaboratorId |-> collaboratorId,
                        procedureId |-> ids[1], date |-> date, status |-> status,
                        companyId |-> users[u].companyId, value |-> value]]]
            /\ UNCHANGED resp

\* the answer of the inner catch of PUT /api/appointments/:id
PutCatch(slot) ==
    /\ resp' = Resp("PUT /api/appointments/:id", pending[slot].caller,
                    pending[slot].id, 400, NoBody, pending[slot].ids,
                    pending[slot].now)
    /\ Finish(slot)

\* storage.updateAppointment(appointmentId, appointmentData)
PutUpdateAppointment(slot) ==
    LET p == pending[slot] IN
    /\ p.pc = "put.updateAppointment"
    /\ UNCHANGED <<companies, users, clients, procedures, appointmentProcedures,
                   financialRecords, appointmentsSeq, financialRecordsSeq>>
    /\ IF p.id \notin DOMAIN appointments \/ ~fkAppointment(p.appointmentData)
       THEN PutCatch(slot) /\ UNCHANGED appointments
       ELSE /\ appointments' = updateAppointment(appointments, p.id, p.appointmentData)
            /\ pending' = [pending EXCEPT ![slot] =
                  [pc |-> "put.removeAllProcedures", caller |-> p.caller,
                   id |-> p.id, ids |-> p.ids, now |-> p.now,
                   existingAppointment |-> p.existingAppointment,
                   updatedAppointment |-> appointments'[p.id]]]
            /\ UNCHANGED resp

\* storage.removeAllProceduresFromAppointment(appointmentId)
PutRemoveAllProcedures(slot) ==
    LET p == pending[slot] IN
    /\ p.pc = "put.removeAllProcedures"
    /\ UNCHANGED <<companies, users, clients, procedures, appointments,
                   financialRecords, appointmentsSeq, financialRecordsSeq, resp>>
    /\ appointmentProcedures' =
           removeAllProceduresFromAppointment(appointmentProcedures, p.id)
    /\ pending' = [pending EXCEPT ![slot] =
          [pc |-> "put.addProcedure", caller |-> p.caller, id |-> p.id,
           ids |-> p.ids, now |-> p.now, next |-> 1,
           existingAppointment |-> p.existingAppointment,
           updatedAppointment |-> p.updatedAppointment]]

\* one turn of the loop: storage.addProcedureToAppointment({appointmentId,
\* procedureId}); the row references appointments and procedures
PutAddProcedure(slot) ==
    LET p == pending[slot] IN
    /\ p.pc = "put.addProcedure"
    /\ UNCHANGED <<companies, users, clients, procedures, appointments,
                   financialRecords, appointmentsSeq, financialRecordsSeq>>
    /\ IF p.id \notin DOMAIN appointments \/ p.ids[p.next] \notin DOMAIN procedures
       THEN PutCatch(slot) /\ UNCHANGED appointmentProcedures
       ELSE /\ appointmentProcedures' =
                   addProcedureToAppointment(appointmentProcedures, p.id,
                                             p.ids[p.next])
            /\ pending' = [pending EXCEPT ![slot] =
                  IF p.next < Len(p.ids)
                  THEN [p EXCEPT !.next = p.next + 1]
                  ELSE [pc |-> IF statusChangedToCompleted(p.updatedAppointment,
                                                           p.existingAppointment)
                               THEN "put.updateFinancialRecord"
                               ELSE "put.getAppointment",
                        caller |-> p.caller, id |-> p.id, ids |-> p.ids,
                        now |-> p.now,
                        updatedAppointment |-> p.updatedAppointment]]
            /\ UNCHANGED resp

\* storage.updateFinancialRecordByAppointment(appointmentId, {value, date})
PutUpdateFinancialRecord(slot) ==
    LET p == pending[slot] IN
    /\ p.pc = "put.updateFinancialRecord"
    /\ UNCHANGED <<companies, users, clients, procedures, appointments,
                   appointmentProcedures, appointmentsSeq, financialRecordsSeq,
                   resp>>
    /\ financialRecords' =
           updateFinancialRecordByAppointment(financialRecords, p.id,
                                              p.updatedAppointment.value, p.now)
    /\ pending' = [pending EXCEPT ![slot] = [p EXCEPT !.pc = "put.getAppointment"]]

\* storage.getAppointment(appointmentId) and res.json(updatedAppointment)
PutGetAppointment(slot) ==
    LET p == pending[slot] IN
    /\ p.pc = "put.getAppointment"
    /\ UNCHANGED <<companies, users, Tables>>
    /\ resp' = Resp("PUT /api/appointments/:id", p.caller, p.id, 200,
                    IF p.id \in DOMAIN appointments
                    THEN <<appointments[p.id]>> ELSE NoBody,
                    p.ids, p.now)
    /\ Finish(slot)

\* DELETE /api/appointments/:id up to the await of
\* storage.deleteFinancialRecordByAppointment
DeleteBegin(slot, u, id) ==
    LET Reject(code) ==
            /\ resp' = Resp("DELETE /api/appointments/:id", u, id, code, NoBody,
                            <<>>, 0)
            /\ UNCHANGED pending
    IN
    /\ pending[slot] = Idle
    /\ UNCHANGED <<companies, users, Tables>>
    /\ IF ~isAuthenticated(u) THEN Reject(401)
       ELSE IF id \notin DOMAIN appointments THEN Reject(404)
       ELSE IF accessDenied(appointments[id], u) THEN Reject(403)
       ELSE /\ pending' = [pending EXCEPT ![slot] =
                  [pc |-> "delete.deleteFinancialRecord", caller |-> u, id |-> id]]
            /\ UNCHANGED resp

\* storage.deleteFinancialRecordByAppointment(appointmentId)
DeleteFinancialRecord(slot) ==
    LET p == pending[slot] IN
    /\ p.pc = "delete.deleteFinancialRecord"
    /\ UNCHANGED <<companies, users, clients, procedures, appointments,
                   appointmentProcedures, appointmentsSeq, financialRecordsSeq,
                   resp>>
    /\ financialRecords' = deleteFinancialRecordByAppointment(financialRecords, p.id)
    /\ pending' = [pending EXCEPT ![slot] =
                      [p EXCEPT !.pc = "delete.removeAllProcedures"]]

\* storage.deleteAppointment: this.removeAllProceduresFromAppointment(id)
DeleteRemoveAllProcedures(slot) ==
    LET p == pending[slot] IN
    /\ p.pc = "delete.removeAllProcedures"
    /\ UNCHANGED <<companies, users, clients, procedures, appointments,
                   financialRecords, appointmentsSeq, financialRecordsSeq, resp>>
    /\ appointmentProcedures' =
           removeAllProceduresFromAppointment(appointmentProcedures, p.id)
    /\ pending' = [pending EXCEPT ![slot] = [p EXCEPT !.pc = "delete.deleteRow"]]

\* storage.deleteAppointment: db.delete(appointments).where(eq(id)), which
\* throws when a junction row references the appointment or when no row is
\* deleted; then the answer
DeleteRow(slot) ==
    LET p == pending[slot]
        Reply(code) == resp' = Resp("DELETE /api/appointments/:id", p.caller,
                                    p.id, code, NoBody, <<>>, 0)
    IN
    /\ p.pc = "delete.deleteRow"
    /\ UNCHANGED <<companies, users, clients, procedures, appointmentProcedures,
                   financialRecords, appointmentsSeq, financialRecordsSeq>>
    /\ Finish(slot)
    /\ IF \/ p.id \notin DOMAIN appointments
          \/ \E i \in 1..Len(appointmentProcedures) :
                 appointmentProcedures[i].appointmentId = p.id
       THEN Reply(500) /\ UNCHANGED appointments
       ELSE appointments' = Remove(appointments, p.id) /\ Reply(204)

PutSteps ==
    \/ \E slot \in Slots, u \in WorkflowCallers, id \in AppointmentIds,
          clientId \in WorkflowClientIds,
          collaboratorId \in WorkflowCollaboratorIds,
          procedureIds \in ConcurrentLists, date \in WorkflowDates,
          status \in ConcurrentStatuses, now \in WorkflowNow :
          PutBegin(slot, u, id, clientId, collaboratorId, procedureIds, date,
                   status, now)
    \/ \E slot \in Slots : PutUpdateAppointment(slot)
    \/ \E slot \in Slots : PutRemoveAllProcedures(slot)
    \/ \E slot \in Slots : PutAddProcedure(slot)
    \/ \E slot \in Slots : PutUpdateFinancialRecord(slot)
    \/ \E slot \in Slots : PutGetAppointment(slot)

DeleteSteps ==
    \/ \E slot \in Slots, u \in WorkflowCallers, id \in AppointmentIds :
          DeleteBegin(slot, u, id)
    \/ \E slot \in Slots : DeleteFinancialRecord(slot)
    \/ \E slot \in Slots : DeleteRemoveAllProcedures(slot)
    \/ \E slot \in Slots : DeleteRow(slot)

PostStep ==
    \E u \in WorkflowCallers, clientId \in WorkflowClientIds,
       collaboratorId \in WorkflowCollaboratorIds,
       procedureIds \in ConcurrentLists, date \in WorkflowDates :
       PostAppointments(u, clientId, collaboratorId, procedureIds, date,
                        NoStatus, 0)

NextUpdates == PostStep \/ PutSteps

\* creations and interleaved updates of appointments
SpecUpdates == Init /\ [][NextUpdates]_vars

NextConcurrent == PostStep \/ PutSteps \/ DeleteSteps

\* creations and interleaved updates and deletions of appointments
SpecConcurrent == Init /\ [][NextConcurrent]_vars

(* ------------------------------ claims --------------------------------- *)

PostOk == resp.op = "POST /api/appointments" /\ resp.status = 201
PutOk == resp.op = "PUT /api/appointments/:id" /\ resp.status = 200

\* the financial records that reference appointment a
linkedRecords(table, a) == {f \in DOMAIN table : table[f].appointmentId = a}

\* the procedure ids of the junction rows of appointment a, in row order
linkedProcedures(rows, a) ==
    LET mine == SelectSeq(rows, LAMBDA r : r.appointmentId = a)
    IN [i \in 1..Len(mine) |-> mine[i].procedureId]

RECURSIVE exactSum(_)
\* the exact sum of the prices of a procedure list, in thousandths
exactSum(procedureIds) ==
    IF procedureIds = <<>> THEN 0
    ELSE procedures[Head(procedureIds)].value.units
             * Pow10(3 - procedures[Head(procedureIds)].value.scale)
         + exactSum(Tail(procedureIds))

\* C1: the appointment stored by a successful POST /api/appointments has as
\* value the exact sum of the prices of its procedure list, as a decimal
\* string with two digits after the point.
C1_ValueIsExactSum ==
    PostOk =>
        /\ exactSum(resp.procedureIds) % 10 = 0
        /\ appointments[resp.id].value = Dec(exactSum(resp.procedureIds) \div 10, 2)

\* C2: after a successful creation exactly one financial record references
\* the new appointment, with type income, category appointment and the
\* appointment's value, date and company.
C2_OneFinancialRecord ==
    PostOk =>
        /\ Cardinality(linkedRecords(financialRecords, resp.id)) = 1
        /\ \A f \in linkedRecords(financialRecords, resp.id) :
              /\ financialRecords[f].type = "income"
              /\ financialRecords[f].category = "appointment"
              /\ financialRecords[f].value = appointments[resp.id].value
              /\ financialRecords[f].date = appointments[resp.id].date
              /\ financialRecords[f].companyId = appointments[resp.id].companyId

C2_Witness ==
    /\ PostOk
    /\ resp.procedureIds = <<1, 2>>
    /\ \E f \in DOMAIN financialRecords :
          /\ financialRecords[f].appointmentId = resp.id
          /\ financialRecords[f].value = resp.body[1].value

\* C3: in every reachable state every stored appointment has exactly one
\* financial record of category "appointment" referencing it, and no such
\* record references an appointment that is not stored.
C3_ExactlyOneRecordPerAppointment ==
    /\ \A a \in DOMAIN appointments :
          Cardinality({f \in linkedRecords(financialRecords, a) :
                          financialRecords[f].category = "appointment"}) = 1
    /\ \A f \in DOMAIN financialRecords :
          (financialRecords[f].category = "appointment"
              /\ financialRecords[f].appointmentId # Null)
          => financialRecords[f].appointmentId \in DOMAIN appointments

\* C5: after a successful update with procedure list L the junction rows of
\* the appointment are one row per element of L, in order, and nothing else.
C5_LinksReplaced ==
    PutOk => linkedProcedures(appointmentProcedures, resp.id) = resp.procedureIds

\* the appointment was created with two procedures (its financial record
\* still carries their sum, 55.40) and now has the single row of <<2>>
C5_Witness ==
    /\ PutOk
    /\ resp.procedureIds = <<2>>
    /\ Len(SelectSeq(appointmentProcedures,
                     LAMBDA r : r.appointmentId = resp.id)) = 1
    /\ \E f \in linkedRecords(financialRecords, resp.id) :
          financialRecords[f].value = Dec(554, 1)

\* C6: an update that changes the status from a non-completed status to
\* completed sets the value of the linked financial record to the
\* appointment's new value and its date to the instant of the update.
C6_CompletedSync ==
    [][(/\ resp'.op = "PUT /api/appointments/:id"
        /\ resp'.status = 200
        /\ appointments[resp'.id].status # "completed"
        /\ appointments'[resp'.id].status = "completed")
       => \A f \in linkedRecords(financialRecords', resp'.id) :
             /\ financialRecords'[f].value = appointments'[resp'.id].value
             /\ financialRecords'[f].date = resp'.now]_vars

C6_Witness ==
    /\ PutOk
    /\ appointments[resp.id].status = "completed"
    /\ \E f \in linkedRecords(financialRecords, resp.id) :
          /\ financialRecords[f].date = resp.now
          /\ financialRecords[f].date # appointments[resp.id].date
          /\ financialRecords[f].value = appointments[resp.id].value

\* C7: an update of an appointment that is completed and stays completed
\* leaves every financial record as it was, also when the update changes the
\* procedure list and the value.
C7_NoResync ==
    [][(/\ resp'.op = "PUT /api/appointments/:id"
        /\ resp'.status = 200
        /\ appointments[resp'.id].status = "completed"
        /\ appointments'[resp'.id].status = "completed")
       => financialRecords' = financialRecords]_vars

\* the record was synced by an earlier update (its date is that update's
\* instant) and the last update, completed to completed, changed the value
C7_Witness ==
    /\ PutOk
    /\ appointments[resp.id].status = "completed"
    /\ \E f \in linkedRecords(financialRecords, resp.id) :
          /\ financialRecords[f].date = resp.now
          /\ financialRecords[f].value # appointments[resp.id].value

\* C10: every appointment has the company of its client, of its collaborator
\* and of each linked procedure, and every financial record that references
\* an appointment has that appointment's company.
C10_TenantIsolation ==
    /\ \A a \in DOMAIN appointments :
          /\ appointments[a].clientId \in DOMAIN clients
                => clients[appointments[a].clientId].companyId = appointments[a].companyId
          /\ users[appointments[a].collaboratorId].companyId = appointments[a].companyId
    /\ \A i \in 1..Len(appointmentProcedures) :
          LET r == appointmentProcedures[i] IN
          (r.appointmentId \in DOMAIN appointments /\ r.procedureId \in DOMAIN procedures)
          => procedures[r.procedureId].companyId = appointments[r.appointmentId].companyId
    /\ \A f \in DOMAIN financialRecords :
          financialRecords[f].appointmentId \in DOMAIN appointments
          => financialRecords[f].companyId
                 = appointments[financialRecords[f].appointmentId].companyId

\* C4: a delete removes the financial records of the appointment, then its
\* junction rows, then its row, in that order, and from then on a fetch, an
\* update or a delete of that appointment answers 404 and changes nothing.
C4_DeleteOrder ==
    [][/\ (resp'.op = "DELETE /api/appointments/:id"
              /\ resp'.id \in DOMAIN appointments)
          => /\ resp'.id \notin DOMAIN appointments'
                => /\ linkedProcedures(appointmentProcedures', resp'.id) = <<>>
                   /\ linkedRecords(financialRecords', resp'.id) = {}
             /\ appointmentProcedures' # appointmentProcedures
                => linkedRecords(financialRecords', resp'.id) = {}
             /\ resp'.status = 204 <=> resp'.id \notin DOMAIN appointments'
       /\ (/\ resp'.op \in {"DELETE /api/appointments/:id",
                            "PUT /api/appointments/:id",
                            "GET /api/appointments/:id/procedures"}
           /\ isAuthenticated(resp'.caller)
           /\ resp'.id \notin DOMAIN appointments)
          => /\ resp'.status = 404
             /\ UNCHANGED <<appointments, appointmentProcedures, financialRecords>>
       /\ \A a \in AppointmentIds :
             (a < appointmentsSeq /\ a \notin DOMAIN appointments)
             => a \notin DOMAIN appointments']_vars

\* an update of an appointment that a delete has removed answers 404
C4_Witness ==
    /\ resp.op = "PUT /api/appointments/:id"
    /\ resp.status = 404
    /\ resp.id < appointmentsSeq
    /\ resp.id \notin DOMAIN appointments
    /\ linkedRecords(financialRecords, resp.id) = {}

\* C8: the value of every financial record linked to an
\* appointment equals the appointment's current value.
C8_RecordValueIsAppointmentValue ==
    \A a \in DOMAIN appointments :
        \A f \in linkedRecords(financialRecords, a) :
            financialRecords[f].value = appointments[a].value

\* C8, per handler: after a successful creation, and after a successful update
\* that changes the status from a non-completed status to completed, the
\* value of every linked financial record equals the appointment's value;
\* any other successful update leaves the value of the record as it was.
C8_ValueSyncedOnCreateAndCompletion ==
    [][/\ (resp'.op = "POST /api/appointments" /\ resp'.status = 201)
          => \A f \in linkedRecords(financialRecords', resp'.id) :
                financialRecords'[f].value = appointments'[resp'.id].value
       /\ (resp'.op = "PUT /api/appointments/:id" /\ resp'.status = 200)
          => IF appointments[resp'.id].status # "completed"
                /\ appointments'[resp'.id].status = "completed"
             THEN \A f \in linkedRecords(financialRecords', resp'.id) :
                     financialRecords'[f].value = appointments'[resp'.id].value
             ELSE \A f \in linkedRecords(financialRecords, resp'.id) :
                     /\ f \in DOMAIN financialRecords'
                     /\ financialRecords'[f].value = financialRecords[f].value]_vars

\* the update completed an appointment whose procedure list it also changed:
\* the record carries the new value, 39.80, which no creation with <<2>> or
\* <<1, 2>> gave it
C8_Witness ==
    /\ PutOk
    /\ resp.procedureIds = <<1, 1>>
    /\ appointments[resp.id].status = "completed"
    /\ appointments[resp.id].value = Dec(398, 1)
    /\ \A f \in linkedRecords(financialRecords, resp.id) :
          financialRecords[f].value = Dec(398, 1)
    /\ linkedRecords(financialRecords, resp.id) # {}

crossTenant(table, id, u) ==
    /\ id \in DOMAIN table
    /\ isAuthenticated(u)
    /\ table[id].companyId # users[u].companyId

C11_ClientAndCollaboratorOfTenant ==
    PostOk =>
        /\ appointments[resp.id].clientId \in DOMAIN clients
        /\ clients[appointments[resp.id].clientId].companyId
               = users[resp.caller].companyId
        /\ appointments[resp.id].collaboratorId \in DOMAIN users
        /\ users[appointments[resp.id].collaboratorId].companyId
               = users[resp.caller].companyId

\* the stored tables the booking workflow writes are left as they were
NothingWritten ==
    UNCHANGED <<appointments, appointmentProcedures, financialRecords,
                appointmentsSeq, financialRecordsSeq>>

\* the caller may update the stored appointment id
OwnAppointment(u, id) ==
    id \in DOMAIN appointments /\ ~crossTenant(appointments, id, u)

\* C12: a creation, or an update of an appointment of the caller's company,
\* whose procedure list is missing, not a list or empty is answered 400 and
\* writes nothing.
C12_NoListNoWrite ==
    [][\A u \in ValidationCallers, id \in AppointmentIds,
          clientId \in ValidationClientIds,
          collaboratorId \in ValidationCollaboratorIds,
          procedureIds \in NoLists, date \in WorkflowDates,
          status \in AccessStatuses, now \in WorkflowNow :
          /\ PostAppointments(u, clientId, collaboratorId, procedureIds, date,
                              status, 0)
             => resp'.status = 400 /\ NothingWritten
          /\ (OwnAppointment(u, id)
                /\ PutAppointmentsId(u, id, clientId, collaboratorId, procedureIds,
                                     date, status, now, 0))
             => resp'.status = 400 /\ NothingWritten]_vars

\* an update of a stored appointment, with its links and its record, was
\* answered 400 because the body had no usable list
C12_Witness ==
    /\ resp.op = "PUT /api/appointments/:id"
    /\ resp.status = 400
    /\ resp.procedureIds = <<>>
    /\ OwnAppointment(resp.caller, resp.id)
    /\ linkedProcedures(appointmentProcedures, resp.id) # <<>>
    /\ linkedRecords(financialRecords, resp.id) # {}

\* C13: a creation, or an update of an appointment of the caller's company,
\* whose procedure list names a procedure that does not exist or belongs to
\* another company is answered 400 and writes nothing, also when the
\* identifiers before it are valid.
C13_InvalidProcedureNoWrite ==
    [][\A u \in ValidationCallers, id \in AppointmentIds,
          clientId \in ValidationClientIds,
          collaboratorId \in ValidationCollaboratorIds,
          procedureIds \in InvalidLists, date \in WorkflowDates,
          status \in AccessStatuses, now \in WorkflowNow :
          /\ PostAppointments(u, clientId, collaboratorId, procedureIds, date,
                              status, 0)
             => resp'.status = 400 /\ NothingWritten
          /\ (OwnAppointment(u, id)
                /\ PutAppointmentsId(u, id, clientId, collaboratorId, procedureIds,
                                     date, status, now, 0))
             => resp'.status = 400 /\ NothingWritten]_vars

\* an update of a stored appointment was answered 400 for the list <<1, 3>>:
\* procedure 1 is the caller's, procedure 3 belongs to the other company
C13_Witness ==
    /\ resp.op = "PUT /api/appointments/:id"
    /\ resp.status = 400
    /\ resp.procedureIds = <<1, 3>>
    /\ OwnAppointment(resp.caller, resp.id)
    /\ procedures[1].companyId = users[resp.caller].companyId
    /\ procedures[3].companyId # users[resp.caller].companyId
    /\ linkedProcedures(appointmentProcedures, resp.id) # <<>>

\* C14: an update or a deletion of an appointment that is not stored is
\* answered 404, and of an appointment of another company 403, whatever the
\* rest of the request is, and writes nothing.
C14_NotFoundThenForbidden ==
    [][(/\ resp'.op \in {"PUT /api/appointments/:id", "DELETE /api/appointments/:id"}
        /\ isAuthenticated(resp'.caller))
          => /\ resp'.id \notin DOMAIN appointments
                => resp'.status = 404 /\ NothingWritten
             /\ crossTenant(appointments, resp'.id, resp'.caller)
                => resp'.status = 403 /\ NothingWritten]_vars

\* an update of a stored appointment by a user of the other company was
\* answered 403
C14_Witness ==
    /\ resp.op = "PUT /api/appointments/:id"
    /\ resp.status = 403
    /\ crossTenant(appointments, resp.id, resp.caller)
    /\ linkedRecords(financialRecords, resp.id) # {}

\* C15: after a successful update the stored value is the sum of the prices
\* of the procedure list of the request.
C15_UpdateStoresSum ==
    PutOk => parseFloat(appointments[resp.id].value) = exactSum(resp.procedureIds)

\* C16: a request without a session is answered 401, on every route.
C16_NoSessionIs401 ==
    (resp.op # "none" /\ resp.caller = Anonymous) => resp.status = 401

\* C17: no request of a collaborator changes the clients or the procedures,
\* and none creates a financial record through POST /api/financial-records.
C17_CollaboratorNeverWrites ==
    [][(resp'.caller \in DOMAIN users /\ users[resp'.caller].role = "collaborator")
          => /\ UNCHANGED <<clients, procedures>>
             /\ resp'.op = "POST /api/financial-records"
                   => UNCHANGED financialRecords]_vars

\* the last request was a dashboard request that was answered
DashboardOk ==
    resp.op \in {DashboardOp(timeFilter) : timeFilter \in TimeFilters}
    /\ resp.status = 200
\* the time filter of the last dashboard request
respTimeFilter == CHOOSE timeFilter \in TimeFilters : resp.op = DashboardOp(timeFilter)

\* the appointments of a company dated from start to end
inWindow(companyId, start, end) ==
    {a \in DOMAIN appointments :
        /\ appointments[a].companyId = companyId
        /\ appointments[a].date >= start
        /\ appointments[a].date <= end}

C19_DashboardCounts ==
    DashboardOk =>
        LET b == resp.body[1]
            u == resp.caller
            mine(ids) == IF users[u].role = "admin" THEN ids
                         ELSE {a \in ids : appointments[a].collaboratorId = u}
            window == mine(inWindow(users[u].companyId,
                                    startDate(respTimeFilter, resp.now),
                                    endDate(respTimeFilter, resp.now)))
            ahead == mine(inWindow(users[u].companyId, nextWeekStart(resp.now),
                                   nextWeekEnd(resp.now)))
        IN
        /\ b.appointments = Cardinality(window)
        /\ b.clientsServed =
              Cardinality({a \in window : appointments[a].status = "completed"})
        /\ b.weeklyAppointments = Cardinality(ahead)

\* C20: for an admin the revenue of a dashboard answer is the sum of the
\* values of the income records of the company dated in the window, and for
\* any other caller it is 0.
C20_Revenue ==
    DashboardOk =>
        LET u == resp.caller
            start == startDate(respTimeFilter, resp.now)
            end == endDate(respTimeFilter, resp.now)
            income == {f \in DOMAIN financialRecords :
                          /\ financialRecords[f].companyId = users[u].companyId
                          /\ financialRecords[f].type = "income"
                          /\ financialRecords[f].date >= start
                          /\ financialRecords[f].date <= end}
        IN resp.body[1].revenue =
               IF users[u].role = "admin" THEN sumValues(financialRecords, income)
               ELSE 0

\* C21: a creation, update or deletion in which a persistence call throws
\* is answered 500.
C21_FailureIs500 ==
    [][\A u \in FailCallers, id \in AppointmentIds,
          clientId \in WorkflowClientIds,
          collaboratorId \in WorkflowCollaboratorIds,
          procedureIds \in FailLists, date \in WorkflowDates,
          status \in FailStatuses, now \in WorkflowNow,
          failAt \in FailPoints \ {0} :
          (\/ PostAppointments(u, clientId, collaboratorId, procedureIds, date,
                               status, failAt)
           \/ PutAppointmentsId(u, id, clientId, collaboratorId, procedureIds,
                                date, status, now, failAt)
           \/ DeleteAppointmentsId(u, id, failAt))
          => resp'.status = 500]_vars

\* C22: a creation in which the insert of a procedure link or of the
\* financial record throws is answered with an error and leaves the new
\* appointment stored, with the links inserted before the failure and
\* without a financial record.
C22_CreationNotAtomic ==
    [][\A u \in FailCallers, clientId \in WorkflowClientIds,
          collaboratorId \in WorkflowCollaboratorIds,
          procedureIds \in FailLists, date \in WorkflowDates,
          status \in FailStatuses, failAt \in FailPoints \ {0, 1} :
          PostAppointments(u, clientId, collaboratorId, procedureIds, date, status,
                           failAt)
          => LET id == appointmentsSeq
                 n == Len(procedureIds.items)
             IN
             /\ resp'.status >= 400
             /\ id \notin DOMAIN appointments
             /\ id \in DOMAIN appointments'
             /\ linkedRecords(financialRecords', id) = {}
             /\ linkedProcedures(appointmentProcedures', id) =
                    SubSeq(procedureIds.items, 1,
                           IF failAt <= n + 1 THEN failAt - 2 ELSE n)]_vars

\* a creation with the list <<1, 2>> was answered 500 after the link of
\* procedure 1 was inserted: the appointment is stored with that one link
\* and no financial record
C22_Witness ==
    /\ resp.op = "POST /api/appointments"
    /\ resp.status = 500
    /\ resp.procedureIds = <<1, 2>>
    /\ resp.id \in DOMAIN appointments
    /\ linkedProcedures(appointmentProcedures, resp.id) = <<1>>
    /\ linkedRecords(financialRecords, resp.id) = {}

\* C23: when an admin deletes a client of the admin's company the answer is
\* 204, the client is gone and no appointment references it.
C23_ClientDeleteCascades ==
    [][(/\ resp'.op = "DELETE /api/clients/:id"
        /\ isAdmin(resp'.caller)
        /\ resp'.id \in DOMAIN clients
        /\ ~crossTenant(clients, resp'.id, resp'.caller))
          => /\ resp'.status = 204
             /\ resp'.id \notin DOMAIN clients'
             /\ \A a \in DOMAIN appointments' :
                   appointments'[a].clientId # resp'.id]_vars

\* C25: after a successful creation or update with procedure list L the
\* procedureId column of the appointment is the first element of L, and a
\* junction row links the appointment to that procedure.
C25_LegacyProcedureIsFirst ==
    (PostOk \/ PutOk) =>
        /\ appointments[resp.id].procedureId = resp.procedureIds[1]
        /\ \E i \in 1..Len(appointmentProcedures) :
              /\ appointmentProcedures[i].appointmentId = resp.id
              /\ appointmentProcedures[i].procedureId
                    = appointments[resp.id].procedureId

\* an update with the list <<2>> left procedure 2 in the procedureId column
C25_Witness ==
    /\ PutOk
    /\ resp.procedureIds = <<2>>
    /\ appointments[resp.id].procedureId = 2
    /\ linkedProcedures(appointmentProcedures, resp.id) = <<2>>

\* C28: an update or a deletion of an appointment leaves every financial
\* record of another company than the caller's as it was.
C28_OtherTenantRecordsKept ==
    [][resp'.op \in {"PUT /api/appointments/:id", "DELETE /api/appointments/:id"}
          => \A f \in DOMAIN financialRecords :
                financialRecords[f].companyId # users[resp'.caller].companyId
                => /\ f \in DOMAIN financialRecords'
                   /\ financialRecords'[f] = financialRecords[f]]_vars

\* C29: a successful update whose body has no status stores the status
\* scheduled and leaves the financial records as they were; a successful
\* update with status completed of an appointment whose status is scheduled
\* gives the linked records the new value and the instant of the update.
C29_NoStatusResets ==
    [][\A u \in WorkflowCallers, id \in AppointmentIds,
          clientId \in WorkflowClientIds,
          collaboratorId \in WorkflowCollaboratorIds,
          procedureIds \in ProcedureIdLists, date \in CreateUpdateDates,
          now \in WorkflowNow :
          (/\ resp'.op = "PUT /api/appointments/:id"
           /\ resp'.status = 200
           /\ resp'.id = id
           /\ resp'.procedureIds = procedureIds.items
           /\ resp'.body[1].date = date)
          => /\ PutAppointmentsId(u, id, clientId, collaboratorId, procedureIds,
                                  date, NoStatus, now, 0)
                => /\ appointments'[id].status = "scheduled"
                   /\ financialRecords' = financialRecords
             /\ (PutAppointmentsId(u, id, clientId, collaboratorId, procedureIds,
                                   date, "completed", now, 0)
                   /\ appointments[id].status = "scheduled")
                => \A f \in linkedRecords(financialRecords', id) :
                      /\ financialRecords'[f].value = appointments'[id].value
                      /\ financialRecords'[f].date = now]_vars

\* the status is scheduled again although the record linked to the
\* appointment carries the instant of an update, which only the completion
\* of the appointment writes
C29_Witness ==
    /\ PutOk
    /\ appointments[resp.id].status = "scheduled"
    /\ resp.body[1].date = 1
    /\ \E f \in linkedRecords(financialRecords, resp.id) :
          financialRecords[f].date = 2

Quiescent == \A slot \in Slots : pending[slot] = Idle

\* C24: whenever no registration is in flight every stored company has an
\* admin user bound to it.
C24_EveryCompanyHasAdmin ==
    Quiescent =>
        \A c \in DOMAIN companies :
            \E u \in DOMAIN users :
                users[u].role = "admin" /\ users[u].companyId = c

\* C26: a user stored by admin registration has role admin and the id of the
\* company the same request stored; a user stored by collaborator
\* registration has role collaborator and the id of the company that owns
\* the submitted invite code; a collaborator registration whose invite code
\* matches no company is answered 400 and stores no user, whatever role and
\* companyId the body carries.
C26_RoleAndTenantNotChosen ==
    [][/\ \A slot \in Slots :
            /\ (pending[slot].pc = "admin.createCompany"
                  /\ pending'[slot].pc = "admin.createUser")
               => /\ pending'[slot].company = Len(companies')
                  /\ pending'[slot].company \notin DOMAIN companies
                  /\ pending'[slot].request = pending[slot].request
            /\ (pending[slot].pc = "admin.createUser"
                  /\ pending'[slot] = Idle /\ users' # users)
               => /\ users' = Append(users, users'[Len(users')])
                  /\ users'[Len(users')].role = "admin"
                  /\ users'[Len(users')].companyId = pending[slot].company
                  /\ users'[Len(users')].email = pending[slot].request.email
            /\ (pending[slot].pc = "collaborator.createUser"
                  /\ pending'[slot] = Idle /\ users' # users)
               => /\ users' = Append(users, users'[Len(users')])
                  /\ users'[Len(users')].role = "collaborator"
                  /\ users'[Len(users')].companyId
                        \in getCompanyByInviteCode(pending[slot].request.inviteCode)
                  /\ users'[Len(users')].email = pending[slot].request.user.email
       /\ users' # users
          => \E slot \in Slots :
                /\ pending[slot].pc \in {"admin.createUser", "collaborator.createUser"}
                /\ pending'[slot] = Idle
       /\ (/\ resp' # resp
           /\ resp'.op = "POST /api/register/collaborator"
           /\ getCompanyByInviteCode(resp'.request.inviteCode) = {})
          => /\ resp'.status = 400
             /\ UNCHANGED <<users, companies, pending>>]_vars

\* a body with role admin and companyId 2 was registered with the invite code
\* of company 1: the stored user is a collaborator of company 1
C26_Witness ==
    /\ resp.op = "POST /api/register/collaborator"
    /\ resp.status = 201
    /\ resp.request.user.role = "admin"
    /\ resp.request.user.companyId = 2
    /\ resp.request.inviteCode = "AAAA0001"
    /\ users[resp.id].role = "collaborator"
    /\ users[resp.id].companyId = 1

\* C27: whenever no request is in flight, the junction rows of every stored
\* appointment are exactly those of one requested procedure list and the
\* stored value is the price sum of that same list.
C27_UpdatesSerializable ==
    Quiescent =>
        \A id \in DOMAIN appointments :
            \E L \in ConcurrentLists :
                /\ linkedProcedures(appointmentProcedures, id) = L.items
                /\ \E value \in toFixed2(totalValue(L.items)) :
                      appointments[id].value = numberToNumeric(parseFloat(value))

\* C30: whenever no request is in flight and the last answer is that of a
\* delete request, the appointment it named is either removed or still has
\* its financial record.
C30_DeleteKeepsPair ==
    (/\ Quiescent
     /\ resp.op = "DELETE /api/appointments/:id"
     /\ resp.id \in DOMAIN appointments)
    => linkedRecords(financialRecords, resp.id) # {}
====
